---------------------------- MODULE Spec2Model ----------------------------
(***************************************************************************)
(* State-machine model of the Brainfuck decoder of Ciphey                  *)
(* (src/ciphey/basemods/Decoders/brainfuck.py): Brainfuck.decode and       *)
(* Brainfuck.bracemap_and_check.                                           *)
(*                                                                         *)
(* A program text is a sequence of one-character strings.  Program and     *)
(* dictionary positions are 0-based as in the source; TLA+ sequences are   *)
(* 1-based, so position p of the text is ctext[p + 1] and cell i of the    *)
(* tape is memory[i + 1].  A character of the result is represented by its *)
(* code point.                                                             *)
(***************************************************************************)
EXTENDS Integers, Sequences, FiniteSets, TLC

(***************************************************************************)
(* Program constants.                                                      *)
(***************************************************************************)
\* memory = [0] * 100
InitialCells == 100
\* timelimit = 60
timelimit == 60
\* the largest value of a cell (lines 63 and 65)
MaxCell == 255
\* chr() accepts range(0x110000)
MaxCodePoint == 1114111

(***************************************************************************)
(* Bounds of the model.                                                    *)
(***************************************************************************)
\* every text over Alphabet of at most this length is an input
MaxLen == 3
\* the longest run of "+" of the inputs  "+"*n + "."
MaxPlus == 257
\* the longest run of "+" of the inputs  "+"*n + "[-]."
MaxLoop == 255
\* the longest run of ">" of the inputs  ">"*k + "+."
MaxRight == 102
\* the interpreter is not stepped past this tape length
MaxTape == 104
\* the interpreter is not stepped past this result length
MaxOut == 4
\* the number of decode calls of one behaviour of SpecCalls
MaxCalls == 3
\* every text over CallAlphabet of at most this length is an input of SpecCalls
MaxCallLen == 2
\* every text over LiveAlphabet of at most this length is an input of SpecLive
MaxLiveLen == 4

(***************************************************************************)
(* Characters.                                                             *)
(***************************************************************************)
legal_instructions == {"+", "-", ">", "<", "[", "]", "."}

\* The characters re.match(r"\s", c) accepts (the ASCII ones).
Whitespace == {" ", "\t", "\n", "\r", "\f"}

IsWhitespace(c) == c \in Whitespace

\* The characters of the inputs: the seven instructions, a whitespace
\* character and the input instruction ",", which is not legal.
Alphabet == legal_instructions \cup {" ", ","}

CallAlphabet == {"+", ".", "]"}

LiveAlphabet == {"+", "-", "[", "]", "."}

(***************************************************************************)
(* Input texts.                                                            *)
(***************************************************************************)
Rep(c, n) == [i \in 1..n |-> c]

Texts(alphabet, maxlen) == UNION {[1..n -> alphabet] : n \in 0..maxlen}

ShortPrograms == Texts(Alphabet, MaxLen)

\* "+"*n + "."
PlusDot(n) == Rep("+", n) \o <<".">>

\* "+"*n + "[-]."
PlusLoopDot(n) == Rep("+", n) \o <<"[", "-", "]", ".">>

\* ">"*k + "+."
RightPlusDot(k) == Rep(">", k) \o <<"+", ".">>

\* "-<>+[-<+]-<." : marks cell 0, grows the tape by one cell going through
\* the left edge, walks back to cell 0 and moves left once more.
GrowThenWrap == <<"-", "<", ">", "+", "[", "-", "<", "+", "]", "-", "<", ".">>

\* "++[>++[>+<-]<-]>>." : a loop inside a loop; leaves 2 * 2 in cell 2.
NestedLoops ==
    <<"+", "+", "[", ">", "+", "+", "[", ">", "+", "<", "-", "]", "<", "-", "]",
      ">", ">", ".">>

Programs ==
    ShortPrograms
        \cup {PlusDot(n) : n \in 0..MaxPlus}
        \cup {PlusLoopDot(n) : n \in 0..MaxLoop}
        \cup {RightPlusDot(k) : k \in 0..MaxRight}
        \cup {GrowThenWrap, NestedLoops}

CallPrograms == Texts(CallAlphabet, MaxCallLen)

LivePrograms == Texts(LiveAlphabet, MaxLiveLen)

(***************************************************************************)
(* Values.                                                                 *)
(***************************************************************************)
\* Optional[Dict]: None, or a dictionary from positions to positions.
NoneTable == [isNone |-> TRUE, map |-> <<>>]

SomeTable(m) == [isNone |-> FALSE, map |-> m]

\* Optional[str]: None, or a string (the sequence of its code points).
Absent == [present |-> FALSE, value |-> <<>>]

Present(s) == [present |-> TRUE, value |-> s]

\* [0] * n
Zeros(n) == [i \in 1..n |-> 0]

\* d[k] = v on a dictionary
DictPut(d, k, v) == [x \in DOMAIN d \cup {k} |-> IF x = k THEN v ELSE d[x]]

VARIABLES
    ctext,          \* the argument of decode
    pc,             \* where the call is: "scan", "checked", "run", "done", "fault"
    idx,            \* bracemap_and_check: position of the scan
    open_stack,     \* bracemap_and_check: positions of the open "["
    bracemap,       \* the dictionary being built, then decode's bracemap
    legal_count,    \* bracemap_and_check: legal characters seen
    prints,         \* bracemap_and_check: a "." was seen
    isbf,           \* decode: the validator's verdict
    result,         \* decode: the output so far
    memory,         \* decode: the tape
    codeptr,        \* decode: instruction pointer
    memptr,         \* decode: memory pointer
    start,          \* decode: time.time() at line 49
    clock,          \* the wall clock, time.time()
    ret,            \* what decode returned
    timedout,       \* history: the call ended at line 58
    calls,          \* history: number of decode calls made
    first           \* history: text and result of the first call that did not time out

vars ==
    <<ctext, pc, idx, open_stack, bracemap, legal_count, prints, isbf, result,
      memory, codeptr, memptr, start, clock, ret, timedout, calls, first>>

scanVars == <<idx, open_stack, bracemap, legal_count, prints>>

runVars == <<result, memory, codeptr, memptr>>

histVars == <<calls, first>>

NoFirst == [set |-> FALSE, text |-> <<>>, ret |-> Absent]

(***************************************************************************)
(* decode, lines 36-41: the locals of a call, and the call of              *)
(* bracemap_and_check with its locals of lines 100-106.                    *)
(***************************************************************************)
Enter(text) ==
    /\ ctext = text
    /\ pc = "scan"
    /\ result = <<>>
    /\ memory = Zeros(InitialCells)
    /\ codeptr = 0
    /\ memptr = 0
    /\ idx = 0
    /\ open_stack = <<>>
    /\ bracemap = SomeTable(<<>>)
    /\ legal_count = 0
    /\ prints = FALSE
    /\ isbf = FALSE
    /\ start = 0
    /\ ret = Absent
    /\ timedout = FALSE

Init ==
    /\ \E text \in Programs : Enter(text)
    /\ clock = 0
    /\ calls = 1
    /\ first = NoFirst

(***************************************************************************)
(* bracemap_and_check.                                                     *)
(***************************************************************************)
\* line 110
IsLegal(c) == c \in legal_instructions \/ IsWhitespace(c)

\* line 134 without "not open_stack"
IsBrainfuckOpenIgnored(count, length, stack, printing) ==
    count = length /\ printing

\* line 134
IsBrainfuck(count, length, stack, printing) ==
    count = length /\ stack = <<>> /\ printing

\* lines 123-124 without the entry from the "]" back to the "["
RecordPairOneWay(map, opbracket, close) == DictPut(map, opbracket, close)

\* lines 123-124: bracemap[opbracket] = idx; bracemap[idx] = opbracket
RecordPair(map, opbracket, close) ==
    DictPut(DictPut(map, opbracket, close), close, opbracket)

\* One iteration of the loop of line 108 that does not leave the function.
Scan ==
    /\ pc = "scan"
    /\ idx < Len(ctext)
    /\ LET instruction == ctext[idx + 1] IN
        /\ ~(instruction = "]" /\ open_stack = <<>>)
        /\ legal_count' = IF IsLegal(instruction) THEN legal_count + 1 ELSE legal_count
        /\ IF ~prints /\ instruction = "."
           THEN /\ prints' = TRUE
                /\ UNCHANGED <<open_stack, bracemap>>
           ELSE IF instruction = "["
           THEN /\ open_stack' = Append(open_stack, idx)
                /\ UNCHANGED <<prints, bracemap>>
           ELSE IF instruction = "]"
           THEN LET opbracket == open_stack[Len(open_stack)] IN
                /\ open_stack' = SubSeq(open_stack, 1, Len(open_stack) - 1)
                /\ bracemap' = SomeTable(RecordPair(bracemap.map, opbracket, idx))
                /\ UNCHANGED prints
           ELSE UNCHANGED <<open_stack, bracemap, prints>>
    /\ idx' = idx + 1
    /\ UNCHANGED <<ctext, pc, isbf, runVars, start, clock, ret, timedout, histVars>>

\* Lines 120-128 with an except clause that goes on with the scan.
ScanMismatchIgnored ==
    /\ pc = "scan"
    /\ idx < Len(ctext)
    /\ ctext[idx + 1] = "]"
    /\ open_stack = <<>>
    /\ legal_count' = legal_count + 1
    /\ idx' = idx + 1
    /\ UNCHANGED <<ctext, pc, open_stack, bracemap, prints, isbf, runVars, start,
                   clock, ret, timedout, histVars>>

\* Lines 120-128 when open_stack.pop() raises IndexError: return (None, False),
\* assigned to bracemap, isbf at line 41.
ScanMismatch ==
    /\ pc = "scan"
    /\ idx < Len(ctext)
    /\ ctext[idx + 1] = "]"
    /\ open_stack = <<>>
    /\ legal_count' = legal_count + 1
    /\ bracemap' = NoneTable
    /\ isbf' = FALSE
    /\ pc' = "checked"
    /\ UNCHANGED <<ctext, idx, open_stack, prints, runVars, start, clock, ret,
                   timedout, histVars>>

\* lines 134-136 handing back a table only with a True is_brainfuck
ScanEndStrict ==
    /\ pc = "scan"
    /\ idx = Len(ctext)
    /\ isbf' = IsBrainfuck(legal_count, Len(ctext), open_stack, prints)
    /\ bracemap' = IF isbf' THEN bracemap ELSE NoneTable
    /\ pc' = "checked"
    /\ UNCHANGED <<ctext, idx, open_stack, legal_count, prints, runVars, start,
                   clock, ret, timedout, histVars>>

\* Lines 134-136 after the loop, assigned to bracemap, isbf at line 41.
ScanEnd ==
    /\ pc = "scan"
    /\ idx = Len(ctext)
    /\ isbf' = IsBrainfuck(legal_count, Len(ctext), open_stack, prints)
    /\ pc' = "checked"
    /\ UNCHANGED <<ctext, scanVars, runVars, start, clock, ret, timedout, histVars>>

(***************************************************************************)
(* decode: the instructions, lines 60-86.                                  *)
(***************************************************************************)
\* mem[i] of a Python list does not raise IndexError
IndexOk(mem, i) == -Len(mem) <= i /\ i < Len(mem)

\* mem[i] of a Python list (a negative index counts from the end)
Cell(mem, i) == IF i >= 0 THEN mem[i + 1] ELSE mem[Len(mem) + i + 1]

\* mem[i - 1] = v in place of mem[i] = v
ListSetBefore(mem, i, v) ==
    IF i - 1 >= 0 THEN [mem EXCEPT ![i] = v]
    ELSE [mem EXCEPT ![Len(mem) + i] = v]

\* mem[i] = v on a Python list
ListSet(mem, i, v) ==
    IF i >= 0 THEN [mem EXCEPT ![i + 1] = v]
    ELSE [mem EXCEPT ![Len(mem) + i + 1] = v]

\* line 63 without the wrap
IncNoWrap(v) == v + 1

\* line 63: memory[memptr] + 1 if memory[memptr] < 255 else 0
Inc(v) == IF v < MaxCell THEN v + 1 ELSE 0

\* line 65 without the wrap
DecNoWrap(v) == v - 1

\* line 65: memory[memptr] - 1 if memory[memptr] > 0 else 255
Dec(v) == IF v > 0 THEN v - 1 ELSE MaxCell

\* lines 67-69 with the append on every move
MoveRightGrowsAlways(mem, mp) == [memory |-> Append(mem, 0), memptr |-> mp + 1]

\* lines 67-69 with the append one cell early
MoveRightEarly(mem, mp) ==
    [memory |-> IF mp >= Len(mem) - 2 THEN Append(mem, 0) ELSE mem,
     memptr |-> mp + 1]

\* lines 67-69 without the append
MoveRightNoGrow(mem, mp) == [memory |-> mem, memptr |-> mp + 1]

\* lines 67-69
MoveRight(mem, mp) ==
    [memory |-> IF mp = Len(mem) - 1 THEN Append(mem, 0) ELSE mem,
     memptr |-> mp + 1]

\* lines 72-75 wrapping to the end of the tape as it was created
MoveLeftInitial(mem, mp) == IF mp = 0 THEN InitialCells - 1 ELSE mp - 1

\* lines 72-75
MoveLeft(mem, mp) == IF mp = 0 THEN Len(mem) - 1 ELSE mp - 1

\* lines 77 and 80 with the two tests of the cell exchanged
JumpsInverted(cmd, cell) == (cmd = "[" /\ cell # 0) \/ (cmd = "]" /\ cell = 0)

\* lines 77 and 80 with "]" jumping back whatever the cell holds
JumpsBackAlways(cmd, cell) == (cmd = "[" /\ cell = 0) \/ cmd = "]"

\* lines 77 and 80: the conditions under which codeptr = bracemap[codeptr] runs
Jumps(cmd, cell) == (cmd = "[" /\ cell = 0) \/ (cmd = "]" /\ cell # 0)

\* bracemap[codeptr] raises neither TypeError (None) nor KeyError
KeyOk(table, key) == ~table.isNone /\ key \in DOMAIN table.map

\* chr(v) does not raise ValueError
ChrOk(v) == 0 <= v /\ v <= MaxCodePoint

\* chr(v): the one-character string of code point v
Chr(v) == <<v>>

\* The machine: the locals the loop body reads and writes.
Machine(mem, mp, cp, res) ==
    [memory |-> mem, memptr |-> mp, codeptr |-> cp, result |-> res, fault |-> FALSE]

\* An exception leaves the loop: the locals stay as they are.
Raise(m) == [m EXCEPT !.fault = TRUE]

\* line 86
Advance(m) == [m EXCEPT !.codeptr = @ + 1]

\* Lines 62-86: the dispatch of cmd on machine m with the bracket table.
Execute(cmd, m, table) ==
    IF cmd = "+" THEN
        IF ~IndexOk(m.memory, m.memptr) THEN Raise(m)
        ELSE Advance([m EXCEPT !.memory =
                 ListSet(m.memory, m.memptr, Inc(Cell(m.memory, m.memptr)))])
    ELSE IF cmd = "-" THEN
        IF ~IndexOk(m.memory, m.memptr) THEN Raise(m)
        ELSE Advance([m EXCEPT !.memory =
                 ListSet(m.memory, m.memptr, Dec(Cell(m.memory, m.memptr)))])
    ELSE IF cmd = ">" THEN
        LET r == MoveRight(m.memory, m.memptr) IN
        Advance([m EXCEPT !.memory = r.memory, !.memptr = r.memptr])
    ELSE IF cmd = "<" THEN
        Advance([m EXCEPT !.memptr = MoveLeft(m.memory, m.memptr)])
    ELSE IF cmd \in {"[", "]"} THEN
        IF ~IndexOk(m.memory, m.memptr) THEN Raise(m)
        ELSE IF Jumps(cmd, Cell(m.memory, m.memptr)) THEN
            IF ~KeyOk(table, m.codeptr) THEN Raise(m)
            ELSE Advance([m EXCEPT !.codeptr = table.map[m.codeptr]])
        ELSE Advance(m)
    ELSE IF cmd = "." THEN
        IF ~IndexOk(m.memory, m.memptr) THEN Raise(m)
        ELSE IF ~ChrOk(Cell(m.memory, m.memptr)) THEN Raise(m)
        ELSE Advance([m EXCEPT !.result = @ \o Chr(Cell(m.memory, m.memptr))])
    ELSE Advance(m)

\* The model does not step a run whose tape or result would pass its bounds.
WithinBounds(cmd) ==
    /\ ~(cmd = "." /\ Len(result) >= MaxOut)
    /\ ~(cmd = ">" /\ memptr = Len(memory) - 1 /\ Len(memory) >= MaxTape)

(***************************************************************************)
(* decode: control, lines 41-89.                                           *)
(***************************************************************************)
\* The first call that did not time out, once it returned r.
Remember(r) ==
    first' = IF first.set THEN first ELSE [set |-> TRUE, text |-> ctext, ret |-> r]

\* lines 44-46
Reject ==
    /\ pc = "checked"
    /\ ~isbf
    /\ ret' = Absent
    /\ pc' = "done"
    /\ Remember(Absent)
    /\ UNCHANGED <<ctext, scanVars, isbf, runVars, start, clock, timedout, calls>>

\* line 49
Start ==
    /\ pc = "checked"
    /\ isbf
    /\ start' = clock
    /\ pc' = "run"
    /\ UNCHANGED <<ctext, scanVars, isbf, runVars, clock, ret, timedout, histVars>>

\* line 56 with twice the budget
ExpiredLate(current) == current - start > 2 * timelimit

\* line 56 with the operands of the subtraction exchanged
ExpiredSwapped(current) == start - current > timelimit

\* line 56
Expired(current) == current - start > timelimit

\* Lines 53-58 returning what was printed so far.
TimeoutPartial ==
    /\ pc = "run"
    /\ codeptr < Len(ctext)
    /\ Expired(clock)
    /\ ret' = Present(result)
    /\ timedout' = TRUE
    /\ pc' = "done"
    /\ UNCHANGED <<ctext, scanVars, isbf, runVars, start, clock, histVars>>

\* Lines 53-58 when the deadline has passed.
Timeout ==
    /\ pc = "run"
    /\ codeptr < Len(ctext)
    /\ Expired(clock)
    /\ ret' = Absent
    /\ timedout' = TRUE
    /\ pc' = "done"
    /\ UNCHANGED <<ctext, scanVars, isbf, runVars, start, clock, histVars>>

\* Lines 53-86 when it has not: one instruction.
Step ==
    /\ pc = "run"
    /\ codeptr < Len(ctext)
    /\ ~Expired(clock)
    /\ LET cmd == ctext[codeptr + 1]
           m == Execute(cmd, Machine(memory, memptr, codeptr, result), bracemap)
       IN
        /\ WithinBounds(cmd)
        /\ memory' = m.memory
        /\ memptr' = m.memptr
        /\ codeptr' = m.codeptr
        /\ result' = m.result
        /\ pc' = IF m.fault THEN "fault" ELSE "run"
    /\ UNCHANGED <<ctext, scanVars, isbf, start, clock, ret, timedout, histVars>>

\* Lines 51 and 88-89: the loop ends and decode returns result.
Finish ==
    /\ pc = "run"
    /\ codeptr >= Len(ctext)
    /\ ret' = Present(result)
    /\ pc' = "done"
    /\ Remember(Present(result))
    /\ UNCHANGED <<ctext, scanVars, isbf, runVars, start, clock, timedout, calls>>

\* Wall-clock time passes while the loop runs.  Only current - start is read,
\* so the clock is advanced in steps of the budget, and no further once the
\* budget is passed: the elapsed time is 0, the budget itself, or more.
ClockStep == timelimit

Tick ==
    /\ pc = "run"
    /\ clock - start <= timelimit
    /\ clock' = clock + ClockStep
    /\ UNCHANGED <<ctext, pc, scanVars, isbf, runVars, start, ret, timedout, histVars>>

\* A further call with the tape and its pointer kept on the object.
CallStale ==
    /\ pc = "done"
    /\ calls < MaxCalls
    /\ calls' = calls + 1
    /\ \E text \in CallPrograms : ctext' = text
    /\ pc' = "scan"
    /\ result' = <<>>
    /\ codeptr' = 0
    /\ idx' = 0
    /\ open_stack' = <<>>
    /\ bracemap' = SomeTable(<<>>)
    /\ legal_count' = 0
    /\ prints' = FALSE
    /\ isbf' = FALSE
    /\ start' = 0
    /\ ret' = Absent
    /\ timedout' = FALSE
    /\ UNCHANGED <<memory, memptr, clock, first>>

\* A further call of decode on the same object, lines 36-41.
Call ==
    /\ pc = "done"
    /\ calls < MaxCalls
    /\ calls' = calls + 1
    /\ \E text \in CallPrograms : ctext' = text
    /\ pc' = "scan"
    /\ result' = <<>>
    /\ memory' = Zeros(InitialCells)
    /\ codeptr' = 0
    /\ memptr' = 0
    /\ idx' = 0
    /\ open_stack' = <<>>
    /\ bracemap' = SomeTable(<<>>)
    /\ legal_count' = 0
    /\ prints' = FALSE
    /\ isbf' = FALSE
    /\ start' = 0
    /\ ret' = Absent
    /\ timedout' = FALSE
    /\ UNCHANGED <<clock, first>>

Next ==
    \/ Scan
    \/ ScanMismatch
    \/ ScanEnd
    \/ Reject
    \/ Start
    \/ Step
    \/ Timeout
    \/ Finish
    \/ Tick

Spec == Init /\ [][Next]_vars

\* Sequences of calls on short texts.
InitCalls ==
    /\ \E text \in CallPrograms : Enter(text)
    /\ clock = 0
    /\ calls = 1
    /\ first = NoFirst

NextCalls == Next \/ Call

SpecCalls == InitCalls /\ [][NextCalls]_vars

\* One call under fairness: the interpreter keeps going and time passes.
InitLive ==
    /\ \E text \in LivePrograms : Enter(text)
    /\ clock = 0
    /\ calls = 1
    /\ first = NoFirst

Proceed ==
    Scan \/ ScanMismatch \/ ScanEnd \/ Reject \/ Start \/ Step \/ Timeout \/ Finish

SpecLive == InitLive /\ [][Next]_vars /\ WF_vars(Proceed) /\ WF_vars(Tick)

(***************************************************************************)
(* What the claims speak of, stated apart from the code's stack and        *)
(* dictionary.                                                             *)
(***************************************************************************)
\* Every character is one of + - < > [ ] . or whitespace.
AllLegal(p) ==
    \A i \in 1..Len(p) : p[i] \in {"+", "-", "<", ">", "[", "]", "."} \cup Whitespace

HasDot(p) == \E i \in 1..Len(p) : p[i] = "."

IsBracket(c) == c \in {"[", "]"}

\* The number of "[" less the number of "]" among the first i brackets of bs.
Depth(bs, i) ==
    Cardinality({j \in 1..i : bs[j] = "["}) - Cardinality({j \in 1..i : bs[j] = "]"})

\* Some "]" is met while no "[" is open: the brackets before it and itself
\* close more than they open.
UnmatchedClose(p) ==
    LET bs == SelectSeq(p, IsBracket) IN \E i \in 1..Len(bs) : Depth(bs, i) < 0

\* No unmatched "]" and no unmatched "[".
Matched(p) ==
    LET bs == SelectSeq(p, IsBracket) IN \A i \in 1..Len(bs) : Depth(bs, i) >= 0 /\ Depth(bs, Len(bs)) = 0

\* The 0-based position of the first "]" met while no "[" is open.
FirstUnmatchedClose(p) ==
    (CHOOSE i \in 1..Len(p) :
        /\ Depth(SelectSeq(SubSeq(p, 1, i), IsBracket),
                 Len(SelectSeq(SubSeq(p, 1, i), IsBracket))) < 0
        /\ \A j \in 1..(i - 1) :
               Depth(SelectSeq(SubSeq(p, 1, j), IsBracket),
                     Len(SelectSeq(SubSeq(p, 1, j), IsBracket))) >= 0) - 1

Eligible(p) == AllLegal(p) /\ Matched(p) /\ HasDot(p)

\* The locals of decode as lines 36-38 set them.
Untouched ==
    /\ codeptr = 0
    /\ memptr = 0
    /\ memory = Zeros(InitialCells)
    /\ result = <<>>

(***************************************************************************)
(* C1: the validator reports the text eligible exactly when every          *)
(* character is an instruction or whitespace, every bracket is matched and *)
(* a "." occurs; decode returns a present result for no other text.        *)
(***************************************************************************)
C1_EligibleIffLegalMatchedPrints ==
    /\ pc = "checked" => (isbf <=> Eligible(ctext))
    /\ pc \in {"run", "fault"} => isbf
    /\ pc = "done" /\ ret.present => isbf /\ Eligible(ctext)

C1_Witness ==
    /\ pc = "checked"
    /\ ctext = <<"[", ".", "]">>
    /\ isbf

(***************************************************************************)
(* C2: when some "]" is met while no "[" is open, the scan stops at that   *)
(* position with (None, False), and decode returns None with codeptr,      *)
(* memptr, memory and result as lines 36-38 set them.                      *)
(***************************************************************************)
C2_UnmatchedCloseRejectsUnrun ==
    UnmatchedClose(ctext) =>
        /\ pc \in {"scan", "checked", "done"}
        /\ Untouched
        /\ LET stop == FirstUnmatchedClose(ctext) IN
               IF pc = "scan" THEN idx <= stop ELSE idx = stop
        /\ pc \in {"checked", "done"} =>
               /\ bracemap = NoneTable
               /\ ~isbf
        /\ pc = "done" => ret = Absent /\ ~timedout

C2_Witness ==
    /\ pc = "done"
    /\ ctext = <<"]", "[", "[">>
    /\ idx = 0
    /\ ret = Absent

(***************************************************************************)
(* C3: decode returns a present result only for an eligible text whose     *)
(* loop ended with codeptr >= len(ctext), and that result is the whole     *)
(* result string; when the deadline check fires it returns None, whatever  *)
(* the result string holds.                                                *)
(***************************************************************************)
C3_AllOrNothing ==
    pc = "done" =>
        /\ ret.present =>
               /\ isbf
               /\ codeptr >= Len(ctext)
               /\ ret.value = result
               /\ ~timedout
        /\ timedout => ret = Absent /\ codeptr < Len(ctext)
        /\ ~ret.present => ret.value = <<>>

C3_Witness ==
    /\ pc = "done"
    /\ timedout
    /\ result # <<>>
    /\ ret = Absent

(***************************************************************************)
(* C4: a run of an eligible text meets no index or range fault: memptr is  *)
(* an index of the tape whenever a cell can be accessed, a bracket at      *)
(* which a jump is taken is a key of the bracket table, and the value      *)
(* given to chr by "." is in 0..255.                                       *)
(***************************************************************************)
C4_NoIndexOrRangeFault ==
    /\ pc # "fault"
    /\ pc = "run" =>
           /\ 0 <= memptr
           /\ memptr < Len(memory)
           /\ 0 <= codeptr
           /\ codeptr < Len(ctext) =>
                  LET cmd == ctext[codeptr + 1]
                      cell == memory[memptr + 1]
                  IN
                   /\ (cmd = "[" /\ cell = 0) \/ (cmd = "]" /\ cell # 0) =>
                          ~bracemap.isNone /\ codeptr \in DOMAIN bracemap.map
                   /\ cmd = "." => cell \in 0..255

C4_Witness ==
    /\ pc = "run"
    /\ Len(memory) > InitialCells
    /\ codeptr < Len(ctext)
    /\ ctext[codeptr + 1] = "]"
    /\ memory[memptr + 1] # 0

\* The run is at the "]" of a loop "[]" whose cell is not zero.
Spinning ==
    /\ pc = "run"
    /\ codeptr >= 1
    /\ codeptr < Len(ctext)
    /\ ctext[codeptr] = "["
    /\ ctext[codeptr + 1] = "]"
    /\ memory[memptr + 1] # 0

(***************************************************************************)
(* C5: when the interpreter keeps stepping and time keeps passing, every   *)
(* decode call returns; a call that is in an empty loop "[]" on a nonzero  *)
(* cell returns None, by the deadline check, once the elapsed time is      *)
(* over the budget.                                                        *)
(***************************************************************************)
C5_EveryCallReturns ==
    /\ <>(pc = "done")
    /\ Spinning ~> (pc = "done" /\ ret = Absent /\ timedout /\ clock - start > timelimit)

C5_Witness ==
    /\ pc = "done"
    /\ ctext = <<"+", ".", "[", "]">>
    /\ timedout
    /\ result # <<>>
    /\ ret = Absent
    /\ clock - start > timelimit

(***************************************************************************)
(* C6: "+"*n + "." returns the one character of code point n mod 256, "-"  *)
(* on a zero cell yields 255, and "+" then "-", or "-" then "+", on a cell *)
(* restores its value.                                                     *)
(***************************************************************************)
C6_CellArithmeticWraps ==
    /\ pc = "done" /\ ~timedout /\ ctext = PlusDot(Len(ctext) - 1) =>
           ret = Present(<<(Len(ctext) - 1) % 256>>)
    /\ pc = "done" /\ ~timedout /\ ctext = <<"-", ".">> => ret = Present(<<255>>)
    /\ pc = "done" /\ ~timedout /\ ctext \in {<<"+", "-", ".">>, <<"-", "+", ".">>} =>
           ret = Present(<<0>>)
    /\ pc = "run" =>
           LET v == memory[memptr + 1] IN
            /\ Dec(Inc(v)) = v
            /\ Inc(Dec(v)) = v
            /\ Inc(v) = (v + 1) % 256
            /\ Dec(v) = (v + 255) % 256

C6_Witness ==
    /\ pc = "done"
    /\ ctext = PlusDot(256)
    /\ ret = Present(<<0>>)

(***************************************************************************)
(* Brackets and steps, for the claims about jumps.                         *)
(***************************************************************************)
\* The number of "[" less the number of "]" in p[i..j] (1-based).
Net(p, i, j) ==
    Cardinality({k \in i..j : p[k] = "["}) - Cardinality({k \in i..j : p[k] = "]"})

\* p[j] is the "]" that closes the "[" at p[i] (1-based).
IsMatch(p, i, j) ==
    /\ i < j
    /\ p[i] = "["
    /\ p[j] = "]"
    /\ Net(p, i, j) = 0
    /\ \A k \in i..(j - 1) : Net(p, i, k) > 0

\* The 1-based position of the "]" matching the "[" at p[i].
MatchingClose(p, i) == CHOOSE j \in (i + 1)..Len(p) : IsMatch(p, i, j)

\* The 1-based position of the "[" matching the "]" at p[j].
MatchingOpen(p, j) == j - (CHOOSE d \in 1..(j - 1) : IsMatch(p, j - d, j))

\* The transition dispatches one instruction without a fault.
IsStep == pc = "run" /\ pc' = "run" /\ clock' = clock

\* The text is "+"*n + "[-]." for some n.
InLoopFamily ==
    /\ Len(ctext) >= 4
    /\ ctext[Len(ctext)] = "."
    /\ ctext = PlusLoopDot(Len(ctext) - 4)

\* A bound on the instructions a run of "+"*n + "[-]." has yet to dispatch,
\* from its instruction pointer cp and the value c of cell 0.
LoopRank(cp, c) ==
    LET n == Len(ctext) - 4 IN
    IF cp < n THEN 3 * MaxCell + 5 + (n - cp)
    ELSE 3 * c + (CASE cp = n -> 4
                    [] cp = n + 1 -> 2
                    [] cp = n + 2 -> 3
                    [] cp = n + 3 -> 1
                    [] OTHER -> 0)

\* One transition of a run, as C7 reads it: where taken jumps land, the bound
\* on the steps left of "+"*n + "[-].", and what that text returns.
C7_Step ==
    /\ IsStep =>
           LET cmd == ctext[codeptr + 1]
               cell == memory[memptr + 1]
           IN
            /\ cmd = "[" /\ cell = 0 =>
                   codeptr' = (MatchingClose(ctext, codeptr + 1) - 1) + 1
            /\ cmd = "]" /\ cell # 0 =>
                   codeptr' = (MatchingOpen(ctext, codeptr + 1) - 1) + 1
            /\ InLoopFamily =>
                   /\ memptr = 0
                   /\ LoopRank(codeptr', memory'[1]) < LoopRank(codeptr, memory[1])
                   /\ LoopRank(codeptr', memory'[1]) >= 0
    /\ pc' = "done" /\ ~timedout' /\ InLoopFamily => ret' = Present(<<0>>)

(***************************************************************************)
(* C7: "+"*n + "[-]." returns the one character of code point 0, and its   *)
(* run ends: every step lowers a bound on the steps left.  A "[" on a zero *)
(* cell continues one past its matching "]", a "]" on a nonzero cell at    *)
(* the first instruction after its matching "[".                           *)
(***************************************************************************)
C7_LoopClearsCell == [][C7_Step]_vars

C7_Witness ==
    /\ pc = "done"
    /\ ctext = PlusLoopDot(3)
    /\ ret = Present(<<0>>)

\* One transition of a run, as C8 reads it: what "<" does to memptr, and
\* what "<." returns.
C8_Step ==
    /\ IsStep /\ ctext[codeptr + 1] = "<" =>
           /\ memory' = memory
           /\ memptr' = IF memptr = 0 THEN Len(memory') - 1 ELSE memptr - 1
    /\ pc' = "done" /\ ~timedout' /\ ctext = <<"<", ".">> =>
           /\ memptr' = Len(memory') - 1
           /\ ret' = Present(<<memory'[Len(memory')]>>)
           /\ ret' = Present(<<0>>)

(***************************************************************************)
(* C8: "<" with memptr = 0 moves memptr to the last index of the tape as   *)
(* it is then, and otherwise lowers memptr by one; "<." returns the value  *)
(* of the last cell, 0.                                                    *)
(***************************************************************************)
C8_LeftWrapsToCurrentEnd == [][C8_Step]_vars

C8_Witness ==
    /\ pc = "run"
    /\ ctext = GrowThenWrap
    /\ codeptr >= 1
    /\ ctext[codeptr] = "<"
    /\ Len(memory) > InitialCells
    /\ memptr = Len(memory) - 1

\* The text is ">"*k + "+." for some k greater than the initial tape length.
InRightFamily ==
    /\ Len(ctext) - 2 > InitialCells
    /\ ctext = RightPlusDot(Len(ctext) - 2)

(***************************************************************************)
(* C9: after k > 100 times ">" from the start, then "+.", the run has not  *)
(* faulted and the tape holds 100 + (k - 100) cells.                       *)
(***************************************************************************)
C9_TapeLengthAsClaimed ==
    pc = "done" /\ ~timedout /\ InRightFamily =>
        Len(memory) = InitialCells + ((Len(ctext) - 2) - InitialCells)

(***************************************************************************)
(* C9, amended: after k > 100 times ">" from the start, then "+.", the run *)
(* has not faulted and the tape holds k + 1 cells, 100 + (k - 99): one     *)
(* cell for each ">" dispatched at the last index, the 100th being the     *)
(* first.                                                                  *)
(***************************************************************************)
C9_TapeGrowsWithPointer ==
    /\ pc = "fault" => ~InRightFamily
    /\ pc = "done" /\ ~timedout /\ InRightFamily =>
           /\ Len(memory) = (Len(ctext) - 2) + 1
           /\ Len(memory) = InitialCells + ((Len(ctext) - 2) - (InitialCells - 1))
           /\ memptr = Len(ctext) - 2
           /\ ret = Present(<<1>>)

C9_Witness ==
    /\ pc = "done"
    /\ ~timedout
    /\ ctext = RightPlusDot(InitialCells + 1)
    /\ Len(memory) = InitialCells + 2
    /\ ret = Present(<<1>>)

(***************************************************************************)
(* C10: every call of decode starts from codeptr = 0, memptr = 0, a tape   *)
(* of 100 zero cells and an empty result, and a call that does not time    *)
(* out returns what the first such call on the same text returned,         *)
(* whatever calls came between.                                            *)
(***************************************************************************)
C10_NoCrossCallState ==
    /\ pc \in {"scan", "checked"} => Untouched
    /\ pc = "done" /\ ~timedout /\ first.set /\ first.text = ctext => ret = first.ret

C10_Witness ==
    /\ pc = "done"
    /\ calls = MaxCalls
    /\ ~timedout
    /\ first.text = ctext
    /\ ctext = <<"+", ".">>
    /\ clock > 0
    /\ ret = Present(<<1>>)

\* One transition of a run, as C11 reads it: ">" at the last index and "<" at
\* index 0 each move memptr to the other end of the tape.
C11_Step ==
    /\ IsStep /\ ctext[codeptr + 1] = ">" /\ memptr = Len(memory) - 1 => memptr' = 0
    /\ IsStep /\ ctext[codeptr + 1] = "<" /\ memptr = 0 => memptr' = Len(memory') - 1

(***************************************************************************)
(* C11: the memory pointer wraps for both ">" and "<": ">" dispatched with *)
(* memptr at the last index of the tape moves it to index 0, as "<"        *)
(* dispatched at index 0 moves it to the last index.                       *)
(***************************************************************************)
C11_PointerWrapsBothWays == [][C11_Step]_vars

(***************************************************************************)
(* C12: a table the validator returns is symmetric, each of its entries    *)
(* pairs a "[" with the "]" after it that is its well-nested match, and    *)
(* for an eligible text its keys are the positions of all the brackets.    *)
(***************************************************************************)
C12_TableIsTheMatching ==
    pc = "checked" /\ ~bracemap.isNone =>
        LET table == bracemap.map IN
        /\ \A i \in DOMAIN table :
               /\ table[i] \in DOMAIN table
               /\ table[table[i]] = i
               /\ IF ctext[i + 1] = "["
                  THEN IsMatch(ctext, i + 1, table[i] + 1)
                  ELSE IsMatch(ctext, table[i] + 1, i + 1)
        /\ isbf =>
               DOMAIN table = {i \in 0..(Len(ctext) - 1) : IsBracket(ctext[i + 1])}

C12_Witness ==
    /\ pc = "checked"
    /\ ctext = NestedLoops
    /\ isbf
    /\ DOMAIN bracemap.map = {2, 6, 11, 14}
    /\ bracemap.map[2] = 14
    /\ bracemap.map[6] = 11

(***************************************************************************)
(* C13: in every state of a run every cell of the tape holds a value in    *)
(* 0..255.                                                                 *)
(***************************************************************************)
C13_CellsAreBytes ==
    \A i \in 1..Len(memory) : memory[i] \in 0..255

C13_Witness ==
    /\ pc = "run"
    /\ codeptr >= 1
    /\ ctext[codeptr] = "-"
    /\ memory[memptr + 1] = 255

\* One transition of a call, as C14 reads it.
C14_Step ==
    /\ Len(memory) >= InitialCells
    /\ Len(memory') >= Len(memory)
    /\ Len(memory') # Len(memory) =>
           /\ IsStep
           /\ ctext[codeptr + 1] = ">"
           /\ memptr = Len(memory) - 1
    /\ IsStep /\ ctext[codeptr + 1] = ">" /\ memptr = Len(memory) - 1 =>
           /\ Len(memory') = Len(memory) + 1
           /\ memory'[Len(memory')] = 0
           /\ \A i \in 1..Len(memory) : memory'[i] = memory[i]

(***************************************************************************)
(* C14: within a run the tape is never shorter than 100 cells and never    *)
(* shrinks; its length changes only when ">" is dispatched with memptr at  *)
(* the last index, and then one zero cell is appended at the right end and *)
(* the cells there were keep their values.                                 *)
(***************************************************************************)
C14_TapeGrowsOnlyAtRightEdge == [][C14_Step]_vars

C14_Witness ==
    /\ pc = "run"
    /\ codeptr >= 1
    /\ ctext[codeptr] = ">"
    /\ Len(memory) = InitialCells + 2
    /\ memptr = Len(memory) - 1
    /\ memory[Len(memory)] = 0

\* One transition of a call, as C15 reads it.
C15_Step ==
    /\ pc = "checked" /\ pc' = "run" => codeptr' = 0
    /\ IsStep =>
           LET cmd == ctext[codeptr + 1]
               cell == memory[memptr + 1]
           IN
            IF (cmd = "[" /\ cell = 0) \/ (cmd = "]" /\ cell # 0)
            THEN codeptr' = bracemap.map[codeptr] + 1
            ELSE codeptr' = codeptr + 1

(***************************************************************************)
(* C15: codeptr is 0 when the loop is entered, and a dispatch step leaves  *)
(* it at bracemap[codeptr] + 1 when a jump is taken and at codeptr + 1     *)
(* when none is; "[" jumps exactly when the cell is 0, "]" exactly when    *)
(* it is not.                                                              *)
(***************************************************************************)
C15_PointerAdvancesByOne == [][C15_Step]_vars

C15_Witness ==
    /\ pc = "run"
    /\ ctext = PlusLoopDot(2)
    /\ codeptr = 3
    /\ memory[1] = 1

\* s is an initial part of t.
IsPrefix(s, t) == Len(s) <= Len(t) /\ SubSeq(t, 1, Len(s)) = s

\* One transition of a call, as C16 reads it.
C16_Step ==
    /\ ctext' = ctext
    /\ pc = "run" => bracemap' = bracemap /\ IsPrefix(result, result')
    /\ IsStep =>
           LET cmd == ctext[codeptr + 1] IN
            IF cmd \in {"+", "-"} THEN
                /\ memptr' = memptr
                /\ result' = result
                /\ Len(memory') = Len(memory)
                /\ \A i \in 1..Len(memory) : i # memptr + 1 => memory'[i] = memory[i]
            ELSE IF cmd = ">" THEN
                /\ result' = result
                /\ IsPrefix(memory, memory')
            ELSE IF cmd = "<" THEN
                /\ result' = result
                /\ memory' = memory
            ELSE IF cmd = "." THEN
                /\ memory' = memory
                /\ memptr' = memptr
                /\ result' = Append(result, memory[memptr + 1])
            ELSE
                /\ memory' = memory
                /\ memptr' = memptr
                /\ result' = result

(***************************************************************************)
(* C16: a dispatch step changes only what its instruction owns: "+" and    *)
(* "-" only the cell at memptr; ">" and "<" only memptr (and ">" the       *)
(* length of the tape); "." only result, by the one character of code      *)
(* point memory[memptr]; "[", "]" and whitespace none of tape, memptr and  *)
(* result.  The text and, during the run, the bracket table are never      *)
(* changed, and result only ever grows at its end.                         *)
(***************************************************************************)
C16_StepsChangeOnlyTheirOwn == [][C16_Step]_vars

C16_Witness ==
    /\ pc = "run"
    /\ ctext = <<".", "+", ".">>
    /\ codeptr = 3
    /\ result = <<0, 1>>
    /\ memory[1] = 1

\* One transition of a call, as C17 reads it.
C17_Step ==
    /\ IsStep => clock - start <= timelimit
    /\ pc = "run" /\ codeptr < Len(ctext) /\ clock - start > timelimit =>
           /\ pc' = "done"
           /\ ret' = Absent
           /\ timedout'
           /\ UNCHANGED runVars

(***************************************************************************)
(* C17: no instruction is dispatched once the time elapsed since line 49   *)
(* exceeds 60 seconds; from such a state with codeptr < len(ctext) the     *)
(* only step is the return of None by the deadline check.                  *)
(***************************************************************************)
C17_DeadlinePolledBeforeDispatch == [][C17_Step]_vars

C17_Witness ==
    /\ pc = "done"
    /\ timedout
    /\ ret = Absent
    /\ ctext = NestedLoops
    /\ codeptr = 8
    /\ clock - start > timelimit

(***************************************************************************)
(* C18: whenever decode returns a present result, that result has at       *)
(* least one character.                                                    *)
(***************************************************************************)
C18_ResultIsNeverEmpty == pc = "done" /\ ret.present => Len(ret.value) >= 1

(***************************************************************************)
(* C19, as claimed: the validator hands back a bracket table for every     *)
(* input, eligible or not.                                                 *)
(***************************************************************************)
C19_TableForEveryInput == pc = "checked" => ~bracemap.isNone

(***************************************************************************)
(* C19: the validator hands back None in place of the table exactly when   *)
(* the text has a "]" with no open "[" before it, and then is_brainfuck    *)
(* is False; for every other text, eligible or not, it hands back a        *)
(* table.  The interpreter loop, the only reader of the table, runs only   *)
(* with is_brainfuck True and a table.                                     *)
(***************************************************************************)
C19_TableUnlessUnmatchedClose ==
    /\ pc = "checked" =>
           /\ bracemap.isNone <=> UnmatchedClose(ctext)
           /\ bracemap.isNone => ~isbf
    /\ pc = "run" => isbf /\ ~bracemap.isNone

C19_Witness ==
    /\ pc = "checked"
    /\ ~isbf
    /\ ~bracemap.isNone
    /\ DOMAIN bracemap.map = {0, 1}

=============================================================================
